---- MODULE Spec2Model ----
(***************************************************************************)
(* Model of strix/runtime/remote_tool_server/update_secret.py:             *)
(* update_secret() fetches the repository public key (GET), seals the      *)
(* secret under it and submits it (PUT).  Several invocations run          *)
(* interleaved against one remote whose public key may rotate.             *)
(***************************************************************************)
EXTENDS Integers, Sequences, FiniteSets, TLC

\* ------------------------------------------------------------------ bounds
NumInv == 2
MaxRotations == 1
MaxSeals == 3
MaxUrlLen == 5

Invocations == 1..NumInv
SecretTexts == {"s1", "s2"}
TokenTexts == {"t1", "t2"}

VARIABLES
    pc,                     \* position of each invocation in update_secret
    server_token,           \* argument server_token
    secret_value,           \* argument secret_value
    response,               \* outcome of the invocation's last requests call
    key_id,                 \* local key_id
    public_key,             \* local public_key
    final_encrypted_value,  \* local final_encrypted_value
    calls,                  \* network calls issued by the invocation, in order
    out,                    \* lines printed by the invocation, in order
    ret,                    \* "none" while running, then "True", "False" or "raised"
    remote_key,             \* version of the key the remote currently holds
    nacl_available,         \* whether `from nacl.public import ...` succeeds
    json_error,             \* what response.json() raises in the installed requests
    eph_counter,            \* ephemeral key pairs generated so far
    main_pc,                \* position of each process in main
    argv,                   \* sys.argv of each process
    exit_code,              \* status passed to sys.exit, NoExit before
    seal_log,               \* calls of the two sealing routines, with their results
    url_in,                 \* argument of get_chat_completions_url
    url_out                 \* its successive results

mainvars == <<main_pc, argv, exit_code>>
sealvars == <<seal_log>>
urlvars == <<url_in, url_out>>
updatevars == <<pc, server_token, secret_value, response, key_id, public_key,
                final_encrypted_value, calls, out, ret, remote_key>>

vars == <<pc, server_token, secret_value, response, key_id, public_key,
          final_encrypted_value, calls, out, ret, remote_key, nacl_available, json_error,
          eph_counter, main_pc, argv, exit_code, seal_log, url_in, url_out>>

\* ------------------------------------------------------- strings and bytes
\* A Python str is either ordinary text or the base64 text of some bytes.
Text(s) == [enc |-> "text", raw |-> s]
NoStr == Text("")
b64encode(bytes) == [enc |-> "b64", raw |-> bytes]
CanB64Decode(str) == str.enc = "b64"
b64decode(str) == str.raw
Utf8(str) == [kind |-> "utf8", of |-> str.raw]

\* The 32-byte Curve25519 key of version k, and a key of the wrong length.
KeyBytes(k) == [kind |-> "key", id |-> k, len |-> 32]
ShortKeyBytes(k) == [kind |-> "key", id |-> k, len |-> 16]
KeyIdOf(k) == <<"key_id", k>>
NoKeyId == <<>>

\* ----------------------------------------------------------- the remote
ErrorBody == [json |-> TRUE, obj |-> [message |-> "error"]]
EmptyBody == [json |-> FALSE, obj |-> <<>>]
PublicKeyBody(k) ==
    [json |-> TRUE, obj |-> [key_id |-> KeyIdOf(k), key |-> b64encode(KeyBytes(k))]]

\* Bodies a 200 answer to the public-key GET can carry.
KeyBodies(k) ==
    { PublicKeyBody(k),
      [json |-> TRUE, obj |-> [key |-> b64encode(KeyBytes(k))]],
      [json |-> TRUE, obj |-> [key_id |-> KeyIdOf(k)]],
      [json |-> TRUE, obj |-> <<>>],
      [json |-> FALSE, obj |-> <<>>],
      [json |-> TRUE, obj |-> [key_id |-> KeyIdOf(k), key |-> b64encode(ShortKeyBytes(k))]],
      [json |-> TRUE, obj |-> [key_id |-> KeyIdOf(k), key |-> Text("not base64")]] }

GetErrorStatuses == {401, 403, 404, 429, 500, 503}

GetAnswers(k) ==
    { [status |-> 200, text |-> b] : b \in KeyBodies(k) }
    \cup { [status |-> s, text |-> ErrorBody] : s \in GetErrorStatuses }
    \cup { [status |-> 203, text |-> PublicKeyBody(k)] }

PutAnswers ==
    { [status |-> s, text |-> EmptyBody] : s \in {201, 204} }
    \cup { [status |-> s, text |-> ErrorBody] : s \in {200, 403, 422, 500} }

\* requests.exceptions.RequestException subclasses a call can raise.
RequestExceptions == {"ConnectionError", "Timeout", "RequestsJSONDecodeError"}
NetworkErrors == {"ConnectionError", "Timeout"}
\* response.json() raises requests' JSONDecodeError (a RequestException) on
\* current releases of requests and a plain ValueError on older ones.
JSONDecodeErrors == {"RequestsJSONDecodeError", "ValueError"}

NoResponse == [status |-> 0, text |-> EmptyBody, exc |-> "none"]
Answered(a) == [status |-> a.status, text |-> a.text, exc |-> "none"]
Raised(e) == [status |-> 0, text |-> EmptyBody, exc |-> e]

\* ------------------------------------------------------------ diagnostics
Diag(msg, status, body, err) == [msg |-> msg, status |-> status, body |-> body, err |-> err]

\* ------------------------------------------------------- update_secret
GetOk_any2xx(status) == status >= 200 /\ status < 300

GetOk(status) == status = 200

PutOk_any2xx(status) == status >= 200 /\ status < 300

PutOk(status) == status = 201 \/ status = 204

LookupRaises(obj, name) == name \notin DOMAIN obj

ImportNacl(avail) == avail

ValidPublicKey(bytes) == bytes.kind = "key" /\ bytes.len = 32

SealedBoxEncrypt(pk, plaintext, eph) ==
    [kind |-> "box", pk |-> pk, eph |-> eph, pt |-> plaintext]

FallbackValue(secret) == secret

\* Printed when the public-key GET answers with a status other than 200.
GetFailureDiag_noStatus(r) == Diag("FailedToGetPublicKey", 0, EmptyBody, "")

GetFailureDiag(r) == Diag("FailedToGetPublicKey", r.status, r.text, "")

\* Printed when the PUT answers with a status other than 201 or 204.
PutFailureDiag_noBody(r) == Diag("FailedToUpdate", r.status, EmptyBody, "")

PutFailureDiag(r) == Diag("FailedToUpdate", r.status, r.text, "")

\* The sealing block sealing under a key kept from an earlier fetch.
SealStep_cachedKey(secret, pubkey, avail, eph) ==
    IF ~ImportNacl(avail)
    THEN [raised |-> "none", used_eph |-> FALSE, value |-> FallbackValue(secret),
          prints |-> <<Diag("PyNaClUnavailable", 0, EmptyBody, "")>>]
    ELSE [raised |-> "none", used_eph |-> TRUE,
          value |-> b64encode(SealedBoxEncrypt(KeyBytes(0), Utf8(secret), eph)),
          prints |-> <<>>]

\* The sealing block with a fallback warning that quotes the value it forwards.
SealStep_printsValue(secret, pubkey, avail, eph) ==
    IF ~ImportNacl(avail)
    THEN [raised |-> "none", used_eph |-> FALSE, value |-> FallbackValue(secret),
          prints |-> <<Diag("PyNaClUnavailable", 0, EmptyBody, secret.raw)>>]
    ELSE IF ~CanB64Decode(pubkey)
    THEN [raised |-> "binascii.Error", used_eph |-> FALSE, value |-> NoStr, prints |-> <<>>]
    ELSE IF ~ValidPublicKey(b64decode(pubkey))
    THEN [raised |-> "nacl.ValueError", used_eph |-> FALSE, value |-> NoStr, prints |-> <<>>]
    ELSE [raised |-> "none", used_eph |-> TRUE,
          value |-> b64encode(SealedBoxEncrypt(b64decode(pubkey), Utf8(secret), eph)),
          prints |-> <<>>]

\* The inner try/except ImportError block.
SealStep(secret, pubkey, avail, eph) ==
    IF ~ImportNacl(avail)
    THEN [raised |-> "none", used_eph |-> FALSE, value |-> FallbackValue(secret),
          prints |-> <<Diag("PyNaClUnavailable", 0, EmptyBody, "")>>]
    ELSE IF ~CanB64Decode(pubkey)
    THEN [raised |-> "binascii.Error", used_eph |-> FALSE, value |-> NoStr, prints |-> <<>>]
    ELSE IF ~ValidPublicKey(b64decode(pubkey))
    THEN [raised |-> "nacl.ValueError", used_eph |-> FALSE, value |-> NoStr, prints |-> <<>>]
    ELSE [raised |-> "none", used_eph |-> TRUE,
          value |-> b64encode(SealedBoxEncrypt(b64decode(pubkey), Utf8(secret), eph)),
          prints |-> <<>>]

\* encrypt_secret_with_public_key: the same steps as a function of its own;
\* an exception other than ImportError leaves it.
encrypt_secret_with_public_key(secret, pubkey, avail, eph) ==
    IF ~ImportNacl(avail)
    THEN [raised |-> "none", used_eph |-> FALSE, value |-> FallbackValue(secret),
          prints |-> <<Diag("PyNaClUnavailable", 0, EmptyBody, "")>>]
    ELSE IF ~CanB64Decode(pubkey)
    THEN [raised |-> "binascii.Error", used_eph |-> FALSE, value |-> NoStr, prints |-> <<>>]
    ELSE IF ~ValidPublicKey(b64decode(pubkey))
    THEN [raised |-> "nacl.ValueError", used_eph |-> FALSE, value |-> NoStr, prints |-> <<>>]
    ELSE [raised |-> "none", used_eph |-> TRUE,
          value |-> b64encode(SealedBoxEncrypt(b64decode(pubkey), Utf8(secret), eph)),
          prints |-> <<>>]

\* What the body of the outer try does between the return of requests.get
\* and the call of requests.put.
TryGet(r, secret, avail, eph, je) ==
    LET base == [raised |-> "none", err |-> "", returned |-> FALSE, prints |-> <<>>,
                 key_id |-> NoKeyId, public_key |-> NoStr, fev |-> NoStr,
                 used_eph |-> FALSE]
    IN  IF r.exc # "none"
        THEN [base EXCEPT !.raised = r.exc, !.err = r.exc]
        ELSE IF ~GetOk(r.status)
        THEN [base EXCEPT !.returned = TRUE,
                          !.prints = <<GetFailureDiag(r)>>]
        ELSE IF ~r.text.json
        THEN [base EXCEPT !.raised = je, !.err = je]
        ELSE LET data == r.text.obj IN
             IF LookupRaises(data, "key_id")
             THEN [base EXCEPT !.raised = "KeyError", !.err = "key_id"]
             ELSE IF LookupRaises(data, "key")
             THEN [base EXCEPT !.raised = "KeyError", !.err = "key",
                               !.key_id = data.key_id]
             ELSE LET s == SealStep(secret, data.key, avail, eph) IN
                  [base EXCEPT !.raised = s.raised, !.err = s.raised,
                               !.prints = s.prints, !.key_id = data.key_id,
                               !.public_key = data.key, !.fev = s.value,
                               !.used_eph = s.used_eph]

\* Catch without the final `except Exception` clause.
Catch_noCatchAll(e) ==
    IF e \in RequestExceptions THEN "RequestError"
    ELSE IF e = "KeyError" THEN "MissingKey"
    ELSE "uncaught"

\* Catch with the `except Exception` clause placed first.
Catch_catchAllFirst(e) == "UnexpectedError"

\* The except clauses of the outer try, in order.
Catch(e) ==
    IF e \in RequestExceptions THEN "RequestError"
    ELSE IF e = "KeyError" THEN "MissingKey"
    ELSE "UnexpectedError"

\* Where an invocation goes once it has reported a failure: it returns.
AfterFailure_retry == "idle"

AfterFailure == "done"

NoPayload == [encrypted_value |-> NoStr, key_id |-> NoKeyId]
\* The headers dict built from server_token.
Headers(token) == [Authorization |-> <<"Bearer", token>>]
Request(method, hdrs, payload) ==
    [method |-> method, headers |-> hdrs, payload |-> payload, reply |-> NoResponse]

\* ----------------------------------------------------------------- Init
UpdateInit ==
    /\ pc = [i \in Invocations |-> "idle"]
    /\ server_token = [i \in Invocations |-> NoStr]
    /\ secret_value = [i \in Invocations |-> NoStr]
    /\ response = [i \in Invocations |-> NoResponse]
    /\ key_id = [i \in Invocations |-> NoKeyId]
    /\ public_key = [i \in Invocations |-> NoStr]
    /\ final_encrypted_value = [i \in Invocations |-> NoStr]
    /\ calls = [i \in Invocations |-> <<>>]
    /\ out = [i \in Invocations |-> <<>>]
    /\ ret = [i \in Invocations |-> "none"]
    /\ remote_key = 0
    /\ nacl_available \in BOOLEAN
    /\ json_error \in JSONDecodeErrors
    /\ eph_counter = 0

NoExit == <<>>
NoArgv == <<>>
MainIdle ==
    /\ main_pc = [i \in Invocations |-> "start"]
    /\ argv = [i \in Invocations |-> NoArgv]
    /\ exit_code = [i \in Invocations |-> NoExit]
SealIdle == seal_log = <<>>
UrlIdle == url_in = <<>> /\ url_out = <<>>

Init == UpdateInit /\ MainIdle /\ SealIdle /\ UrlIdle

\* -------------------------------------------------------------- actions
\* update_secret is entered and blocks in requests.get.
Call(i, s, t) ==
    /\ pc[i] = "idle"
    /\ server_token' = [server_token EXCEPT ![i] = Text(t)]
    /\ secret_value' = [secret_value EXCEPT ![i] = Text(s)]
    /\ calls' = [calls EXCEPT ![i] = Append(@, Request("GET", Headers(Text(t)), NoPayload))]
    /\ pc' = [pc EXCEPT ![i] = "get_wait"]
    /\ UNCHANGED <<response, key_id, public_key, final_encrypted_value, out, ret,
                   remote_key, nacl_available, json_error, eph_counter>>
    /\ UNCHANGED <<mainvars, sealvars, urlvars>>

\* The pending requests call of invocation i returns or raises r.
Deliver(i, r, next) ==
    /\ response' = [response EXCEPT ![i] = r]
    /\ calls' = [calls EXCEPT ![i][Len(calls[i])].reply = r]
    /\ pc' = [pc EXCEPT ![i] = next]
    /\ UNCHANGED <<server_token, secret_value, key_id, public_key,
                   final_encrypted_value, out, ret, remote_key, nacl_available, json_error,
                   eph_counter>>
    /\ UNCHANGED <<mainvars, sealvars, urlvars>>

\* The remote answers the GET; the body of a public-key answer carries the
\* key the remote holds at that moment.
GetAnswer(i) ==
    /\ pc[i] = "get_wait"
    /\ \E a \in GetAnswers(remote_key) : Deliver(i, Answered(a), "get_returned")

\* The GET fails in the network: requests.get raises.
GetRaise(i) ==
    /\ pc[i] = "get_wait"
    /\ \E e \in NetworkErrors : Deliver(i, Raised(e), "get_returned")

PutAnswer(i) ==
    /\ pc[i] = "put_wait"
    /\ \E a \in PutAnswers : Deliver(i, Answered(a), "put_returned")

PutRaise(i) ==
    /\ pc[i] = "put_wait"
    /\ \E e \in NetworkErrors : Deliver(i, Raised(e), "put_returned")

\* An exception e reaches the except clauses of the outer try; one that no
\* clause catches leaves update_secret.
Handle(i, e, err, printed) ==
    IF Catch(e) = "uncaught"
    THEN /\ out' = [out EXCEPT ![i] = @ \o printed]
         /\ ret' = [ret EXCEPT ![i] = "raised"]
         /\ pc' = [pc EXCEPT ![i] = "done"]
    ELSE /\ out' = [out EXCEPT ![i] = @ \o printed \o <<Diag(Catch(e), 0, EmptyBody, err)>>]
         /\ ret' = [ret EXCEPT ![i] = "False"]
         /\ pc' = [pc EXCEPT ![i] = AfterFailure]

\* requests.get has returned or raised: status check, parsing, sealing, and
\* either a return or the call of requests.put.
AfterGet(i) ==
    /\ pc[i] = "get_returned"
    /\ LET t == TryGet(response[i], secret_value[i], nacl_available, eph_counter,
                       json_error) IN
        /\ key_id' = [key_id EXCEPT ![i] = t.key_id]
        /\ public_key' = [public_key EXCEPT ![i] = t.public_key]
        /\ final_encrypted_value' = [final_encrypted_value EXCEPT ![i] = t.fev]
        /\ eph_counter' = IF t.used_eph THEN eph_counter + 1 ELSE eph_counter
        /\ IF t.raised # "none"
           THEN /\ Handle(i, t.raised, t.err, t.prints)
                /\ UNCHANGED calls
           ELSE IF t.returned
           THEN /\ out' = [out EXCEPT ![i] = @ \o t.prints]
                /\ ret' = [ret EXCEPT ![i] = "False"]
                /\ pc' = [pc EXCEPT ![i] = AfterFailure]
                /\ UNCHANGED calls
           ELSE /\ out' = [out EXCEPT ![i] = @ \o t.prints]
                /\ calls' = [calls EXCEPT ![i] = Append(@,
                                Request("PUT", Headers(server_token[i]),
                                        [encrypted_value |-> t.fev,
                                         key_id |-> t.key_id]))]
                /\ pc' = [pc EXCEPT ![i] = "put_wait"]
                /\ UNCHANGED ret
    /\ UNCHANGED <<server_token, secret_value, response, remote_key, nacl_available, json_error>>
    /\ UNCHANGED <<mainvars, sealvars, urlvars>>

\* requests.put has returned or raised: interpret the response.
AfterPut(i) ==
    /\ pc[i] = "put_returned"
    /\ LET r == response[i] IN
       IF r.exc # "none"
       THEN Handle(i, r.exc, r.exc, <<>>)
       ELSE IF PutOk(r.status)
       THEN /\ out' = [out EXCEPT ![i] = Append(@, Diag("Success", 0, EmptyBody, ""))]
            /\ ret' = [ret EXCEPT ![i] = "True"]
            /\ pc' = [pc EXCEPT ![i] = "done"]
       ELSE /\ out' = [out EXCEPT ![i] = @ \o
                         <<PutFailureDiag(r),
                           Diag("PermissionHint", 0, EmptyBody, "")>>]
            /\ ret' = [ret EXCEPT ![i] = "False"]
            /\ pc' = [pc EXCEPT ![i] = AfterFailure]
    /\ UNCHANGED <<server_token, secret_value, response, key_id, public_key,
                   final_encrypted_value, calls, remote_key, nacl_available, json_error,
                   eph_counter>>
    /\ UNCHANGED <<mainvars, sealvars, urlvars>>

\* The remote replaces its public key.
RotateKey ==
    /\ remote_key < MaxRotations
    /\ remote_key' = remote_key + 1
    /\ UNCHANGED <<pc, server_token, secret_value, response, key_id, public_key,
                   final_encrypted_value, calls, out, ret, nacl_available, json_error, eph_counter>>
    /\ UNCHANGED <<mainvars, sealvars, urlvars>>

Next ==
    \/ \E i \in Invocations, s \in SecretTexts, t \in TokenTexts : Call(i, s, t)
    \/ \E i \in Invocations : GetAnswer(i)
    \/ \E i \in Invocations : GetRaise(i)
    \/ \E i \in Invocations : AfterGet(i)
    \/ \E i \in Invocations : PutAnswer(i)
    \/ \E i \in Invocations : PutRaise(i)
    \/ \E i \in Invocations : AfterPut(i)
    \/ RotateKey

Spec == Init /\ [][Next]_vars

\* ------------------------------------------------------------------ main
\* sys.argv with n entries: the program name, then the positional arguments.
ArgvOf(n, t, s) == SubSeq(<<"update_secret", t, "owner", "repo", "NAME", s, "extra">>, 1, n)

ArgvChoices ==
    { ArgvOf(n, t, s) : n \in {5, 6, 7}, t \in TokenTexts, s \in SecretTexts }

ArgcOk(a) == Len(a) = 6

ExitStatus_always0(success) == 0

ExitStatus(success) == IF success THEN 0 ELSE 1

\* Each process starts main with some command line.
MainInit ==
    /\ UpdateInit /\ SealIdle /\ UrlIdle
    /\ main_pc = [i \in Invocations |-> "start"]
    /\ argv \in [Invocations -> ArgvChoices]
    /\ exit_code = [i \in Invocations |-> NoExit]

\* Wrong number of arguments: usage line, sys.exit(1).
MainUsage(i) ==
    /\ main_pc[i] = "start"
    /\ ~ArgcOk(argv[i])
    /\ out' = [out EXCEPT ![i] = Append(@, Diag("Usage", 0, EmptyBody, ""))]
    /\ exit_code' = [exit_code EXCEPT ![i] = 1]
    /\ main_pc' = [main_pc EXCEPT ![i] = "exited"]
    /\ UNCHANGED <<pc, server_token, secret_value, response, key_id, public_key,
                   final_encrypted_value, calls, ret, remote_key, nacl_available, json_error,
                   eph_counter, argv, sealvars, urlvars>>

\* main passes argv[1] and argv[5] to update_secret.
MainCall(i) ==
    /\ main_pc[i] = "start"
    /\ ArgcOk(argv[i])
    /\ Call(i, argv[i][6], argv[i][2])

\* update_secret has returned (or raised, which ends the process with
\* status 1): sys.exit(0 if success else 1).
MainExit(i) ==
    /\ main_pc[i] = "start"
    /\ pc[i] = "done"
    /\ exit_code' = [exit_code EXCEPT ![i] = ExitStatus(ret[i] = "True")]
    /\ main_pc' = [main_pc EXCEPT ![i] = "exited"]
    /\ UNCHANGED <<updatevars, nacl_available, json_error, eph_counter, argv, sealvars, urlvars>>

MainNext ==
    \/ \E i \in Invocations : MainUsage(i)
    \/ \E i \in Invocations : MainCall(i)
    \/ \E i \in Invocations : GetAnswer(i)
    \/ \E i \in Invocations : GetRaise(i)
    \/ \E i \in Invocations : AfterGet(i)
    \/ \E i \in Invocations : PutAnswer(i)
    \/ \E i \in Invocations : PutRaise(i)
    \/ \E i \in Invocations : AfterPut(i)
    \/ \E i \in Invocations : MainExit(i)
    \/ RotateKey

MainSpec == MainInit /\ [][MainNext]_vars

\* ------------------------------------------- get_chat_completions_url
\* An endpoint string is a sequence of tokens: the slash and path segments.
UrlTokens == {"/", "v1", "chat", "completions", "h"}
UrlInputs == UNION { [1..n -> UrlTokens] : n \in 0..MaxUrlLen }

ChatCompletionsSuffix == <<"/", "chat", "/", "completions">>
V1Suffix == <<"/", "v1">>

\* str.endswith
EndsWith(str, suffix) ==
    /\ Len(str) >= Len(suffix)
    /\ SubSeq(str, Len(str) - Len(suffix) + 1, Len(str)) = suffix

\* Removes a single trailing slash.
rstrip_one(str) ==
    IF str # <<>> /\ str[Len(str)] = "/" THEN SubSeq(str, 1, Len(str) - 1) ELSE str

\* str.rstrip('/'): removes every trailing slash.
RECURSIVE rstrip(_)
rstrip(str) ==
    IF str # <<>> /\ str[Len(str)] = "/" THEN rstrip(SubSeq(str, 1, Len(str) - 1)) ELSE str

\* get_chat_completions_url without the test for an existing suffix.
get_chat_completions_url_noSuffixTest(base_endpoint) ==
    LET base == rstrip(base_endpoint) IN
    IF EndsWith(base, V1Suffix) THEN base \o ChatCompletionsSuffix
    ELSE base \o V1Suffix \o ChatCompletionsSuffix

get_chat_completions_url(base_endpoint) ==
    LET base == rstrip(base_endpoint) IN
    IF EndsWith(base, ChatCompletionsSuffix) THEN base
    ELSE IF EndsWith(base, V1Suffix) THEN base \o ChatCompletionsSuffix
    ELSE base \o V1Suffix \o ChatCompletionsSuffix

UrlInit ==
    /\ UpdateInit /\ MainIdle /\ SealIdle
    /\ url_in \in UrlInputs
    /\ url_out = <<>>

\* The function is applied to the input, then once more to its own result.
ApplyUrl ==
    /\ Len(url_out) < 2
    /\ url_out' = Append(url_out, get_chat_completions_url(
                        IF url_out = <<>> THEN url_in ELSE url_out[Len(url_out)]))
    /\ UNCHANGED <<updatevars, nacl_available, json_error, eph_counter, mainvars, sealvars, url_in>>

UrlNext == ApplyUrl

UrlSpec == UrlInit /\ [][UrlNext]_vars

\* ------------------------------------------------- the sealing routines
\* Public keys handed to a sealing routine: the remote's keys and one of the
\* wrong length.
SealKeys ==
    { b64encode(KeyBytes(k)) : k \in 0..MaxRotations } \cup { b64encode(ShortKeyBytes(0)) }

Sealed(fn, secret, pubkey, r) ==
    /\ seal_log' = Append(seal_log, [fn |-> fn, secret |-> secret, key |-> pubkey,
                                     raised |-> r.raised, value |-> r.value])
    /\ eph_counter' = IF r.used_eph THEN eph_counter + 1 ELSE eph_counter
    /\ UNCHANGED <<updatevars, nacl_available, json_error, mainvars, urlvars>>

\* One call of encrypt_secret_with_public_key.
CallEncrypt(s, pubkey) ==
    /\ Len(seal_log) < MaxSeals
    /\ Sealed("encrypt_secret_with_public_key", Text(s), pubkey,
              encrypt_secret_with_public_key(Text(s), pubkey, nacl_available, eph_counter))

\* One run of the sealing block inside update_secret.
InlineSeal(s, pubkey) ==
    /\ Len(seal_log) < MaxSeals
    /\ Sealed("update_secret", Text(s), pubkey,
              SealStep(Text(s), pubkey, nacl_available, eph_counter))

SealNext ==
    \/ \E s \in SecretTexts, k \in SealKeys : CallEncrypt(s, k)
    \/ \E s \in SecretTexts, k \in SealKeys : InlineSeal(s, k)

SealSpec == Init /\ [][SealNext]_vars

\* The interpreter runs an invocation's code whenever it is not blocked in a
\* network call; nothing obliges the remote to answer.
FairSpec == Spec /\ \A i \in Invocations : WF_vars(AfterGet(i)) /\ WF_vars(AfterPut(i))

\* =================================================================
\* Properties
\* =================================================================
Done(i) == pc[i] = "done"
PutIndexes(i) == { n \in DOMAIN calls[i] : calls[i][n].method = "PUT" }
GetIndexes(i) == { n \in DOMAIN calls[i] : calls[i][n].method = "GET" }
PutIssued(i) == PutIndexes(i) # {}
\* The outcome of the invocation's GET (NoResponse while it is pending).
GetReply(i) == calls[i][1].reply
GetAnswered(i) == pc[i] \notin {"idle", "get_wait"}
GetAnswered200(i) == GetAnswered(i) /\ GetReply(i).exc = "none" /\ GetReply(i).status = 200
\* The GET failed: a status other than 200, or a network error.
KeyFetchFailed(i) ==
    GetAnswered(i) /\ (GetReply(i).exc # "none" \/ GetReply(i).status # 200)
\* Some PUT of the invocation was answered with status 201 or 204.
PutSucceeded(i) ==
    \E n \in PutIndexes(i) :
        calls[i][n].reply.exc = "none" /\ calls[i][n].reply.status \in {201, 204}
PutAnsweredWith(i, st) ==
    \E n \in PutIndexes(i) :
        calls[i][n].reply.exc = "none" /\ calls[i][n].reply.status = st

\* C1: update_secret returns True exactly when a PUT of this invocation was
\* answered 201 or 204; for every other PUT status (200 included) and on every
\* path without a PUT response it returns False.
C1_TrueIffPutCreatedOrUpdated ==
    \A i \in Invocations :
        /\ Done(i) => ret[i] \in {"True", "False"}
        /\ Done(i) => (ret[i] = "True" <=> PutSucceeded(i))
        /\ ~Done(i) => ret[i] = "none"

C1_Witness ==
    \E i, j \in Invocations :
        /\ Done(i) /\ ret[i] = "True" /\ PutAnsweredWith(i, 204)
        /\ Done(j) /\ ret[j] = "False" /\ PutAnsweredWith(j, 200)

\* v is the base64 text of a sealed box whose plaintext is the UTF-8 of secret.
IsSealedBoxOf(v, secret) ==
    /\ v.enc = "b64"
    /\ v.raw.kind = "box"
    /\ v.raw.pt = Utf8(secret)

\* C2: the encrypted_value of every PUT is a sealed-box ciphertext of
\* secret_value; the unsealed secret_value never reaches the PUT, whether or
\* not the cryptographic library is available.
C2_PutCarriesSealedSecret ==
    \A i \in Invocations : \A n \in PutIndexes(i) :
        IsSealedBoxOf(calls[i][n].payload.encrypted_value, secret_value[i])

\* The GET delivered key_id and key, and the sealing step cannot seal: the
\* library is missing, or the key is not base64 of a 32-byte key.
SealingFails(i) ==
    /\ GetAnswered200(i)
    /\ GetReply(i).text.json
    /\ {"key_id", "key"} \subseteq DOMAIN GetReply(i).text.obj
    /\ \/ ~nacl_available
       \/ ~CanB64Decode(GetReply(i).text.obj.key)
       \/ ~ValidPublicKey(b64decode(GetReply(i).text.obj.key))

\* C3: when the sealing step fails after a successful key fetch, no PUT is
\* issued and update_secret returns False.
C3_SealFailureStopsBeforePut ==
    \A i \in Invocations :
        SealingFails(i) => /\ ~PutIssued(i)
                           /\ Done(i) => ret[i] = "False"

\* Some call of the invocation met an injected failure: a failing status, a
\* network error, or a 200 public-key body that is not JSON or lacks a field.
InjectedFailure(i) ==
    \/ \E n \in DOMAIN calls[i] : calls[i][n].reply.exc \in NetworkErrors
    \/ KeyFetchFailed(i)
    \/ \E n \in PutIndexes(i) :
          calls[i][n].reply.exc = "none" /\ calls[i][n].reply.status \in {403, 422, 500}
    \/ /\ GetAnswered200(i)
       /\ \/ ~GetReply(i).text.json
          \/ ~({"key_id", "key"} \subseteq DOMAIN GetReply(i).text.obj)

\* C4: update_secret never raises to its caller; with an injected HTTP or
\* network failure on either call it ends by returning False.
C4_NeverRaises ==
    \A i \in Invocations :
        /\ ret[i] # "raised"
        /\ Done(i) /\ InjectedFailure(i) => ret[i] = "False"

C4_Witness ==
    \E i, j \in Invocations :
        /\ Done(i) /\ ret[i] = "False" /\ PutIssued(i)
        /\ calls[i][Len(calls[i])].reply.exc = "Timeout"
        /\ Done(j) /\ ret[j] = "False" /\ GetAnswered200(j)
        /\ GetReply(j).text.json /\ "key" \in DOMAIN GetReply(j).text.obj
        /\ ~CanB64Decode(GetReply(j).text.obj.key)

\* C5: a PUT is issued only after the GET of the same invocation completed
\* with status 200; when the key fetch fails, no PUT is issued and
\* update_secret returns False.
C5_PutOnlyAfterGet200 ==
    \A i \in Invocations :
        /\ PutIssued(i) => /\ calls[i][1].method = "GET"
                           /\ GetAnswered200(i)
                           /\ \A n \in PutIndexes(i) : n > 1
        /\ KeyFetchFailed(i) => /\ ~PutIssued(i)
                                /\ Done(i) => ret[i] = "False"

C5_Witness ==
    \E i, j \in Invocations :
        /\ Done(i) /\ GetReply(i).exc = "none" /\ GetReply(i).status = 203
        /\ Len(calls[i]) = 1 /\ ret[i] = "False"
        /\ PutIssued(j) /\ GetAnswered200(j)

\* The GET answered 200 with a JSON object lacking key_id or key.
KeyFieldMissing(i) ==
    /\ GetAnswered200(i)
    /\ GetReply(i).text.json
    /\ ~({"key_id", "key"} \subseteq DOMAIN GetReply(i).text.obj)

\* C6: a 200 public-key response lacking key_id or key does not crash
\* update_secret: it reports a missing-key failure, returns False, and no PUT
\* is issued.
C6_MissingKeyFieldReported ==
    \A i \in Invocations :
        KeyFieldMissing(i) =>
            /\ ~PutIssued(i)
            /\ ret[i] # "raised"
            /\ Done(i) => /\ ret[i] = "False"
                          /\ Len(out[i]) = 1
                          /\ out[i][1].msg = "MissingKey"
                          /\ out[i][1].err \in {"key_id", "key"}

C6_Witness ==
    \E i, j \in Invocations :
        /\ Done(i) /\ KeyFieldMissing(i) /\ "key_id" \notin DOMAIN GetReply(i).text.obj
        /\ Done(j) /\ KeyFieldMissing(j) /\ "key_id" \in DOMAIN GetReply(j).text.obj

\* C7: every PUT carries the key_id returned by the GET of the same
\* invocation together with a ciphertext sealed under the key returned by
\* that same GET.
C7_PutPairsKeyIdWithCiphertext ==
    \A i \in Invocations : \A n \in PutIndexes(i) :
        LET p == calls[i][n].payload
            g == GetReply(i)
        IN  /\ g.exc = "none" /\ g.text.json
            /\ {"key_id", "key"} \subseteq DOMAIN g.text.obj
            /\ p.key_id = g.text.obj.key_id
            /\ p.encrypted_value.enc = "b64"
            /\ p.encrypted_value.raw.kind = "box"
            /\ CanB64Decode(g.text.obj.key)
            /\ p.encrypted_value.raw.pk = b64decode(g.text.obj.key)

\* C8: one invocation issues exactly one GET and at most one PUT; no request
\* is repeated after a failure.
C8_OneGetAtMostOnePut ==
    \A i \in Invocations :
        /\ Cardinality(GetIndexes(i)) = (IF pc[i] = "idle" THEN 0 ELSE 1)
        /\ Cardinality(PutIndexes(i)) <= 1
        /\ Len(calls[i]) <= 2
        /\ Done(i) /\ PutIssued(i) => Len(calls[i]) = 2

C8_Witness ==
    \E i, j \in Invocations :
        /\ Done(i) /\ ret[i] = "False" /\ PutIssued(i) /\ Len(calls[i]) = 2
        /\ Done(j) /\ ret[j] = "False" /\ ~PutIssued(j) /\ Len(calls[j]) = 1

\* C9: every invocation eventually returns, even when the remote never
\* answers the GET or the PUT.
C9_EveryInvocationReturns ==
    \A i \in Invocations : (pc[i] # "idle") ~> Done(i)

\* The cause of a failed key fetch, in the classes the error taxonomy names.
CauseClass(i) ==
    LET g == GetReply(i) IN
    IF g.exc \in NetworkErrors THEN "NetworkError"
    ELSE IF g.status \in {401, 403} THEN "AuthError"
    ELSE IF g.status = 404 THEN "NotFoundError"
    ELSE IF g.status = 429 THEN "RateLimitError"
    ELSE IF g.status >= 500 /\ g.status <= 599 THEN "ServerError"
    ELSE IF KeyFieldMissing(i) THEN "ProtocolError"
    ELSE "none"
\* The kind under which the invocation reported its failure: the message of
\* its last printed line.
ReportedKind(i) == out[i][Len(out[i])].msg
ClassifiedFetchFailure(i) == Done(i) /\ GetAnswered(i) /\ CauseClass(i) # "none"

\* C10: every failure of the key fetch is reported under exactly one kind
\* determined by its cause (401/403, 404, 429, 5xx, network failure, 200
\* lacking a field): two failures are reported under the same kind exactly
\* when their causes fall in the same class.
C10_KindDeterminedByCause ==
    \A i, j \in Invocations :
        ClassifiedFetchFailure(i) /\ ClassifiedFetchFailure(j) =>
            /\ Len(out[i]) = 1 /\ Len(out[j]) = 1
            /\ (CauseClass(i) = CauseClass(j)) <=> (ReportedKind(i) = ReportedKind(j))

\* The line update_secret prints for each cause of a failed key fetch.
ExpectedFetchDiag(i) ==
    LET g == GetReply(i) IN
    IF g.exc \in NetworkErrors THEN Diag("RequestError", 0, EmptyBody, g.exc)
    ELSE IF g.status # 200 THEN Diag("FailedToGetPublicKey", g.status, g.text, "")
    ELSE Diag("MissingKey", 0, EmptyBody,
              IF "key_id" \notin DOMAIN g.text.obj THEN "key_id" ELSE "key")

\* C10 (amended): every failure of the key fetch is reported by exactly one
\* printed line determined by its cause: any status other than 200 as
\* "Failed to get public key" with that status code and body, a connection
\* failure or timeout as "Request error", a 200 response lacking key_id or
\* key as "Missing key in response"; update_secret then returns False.
C10_OneDiagnosticPerFetchFailure ==
    \A i \in Invocations :
        Done(i) /\ (KeyFetchFailed(i) \/ KeyFieldMissing(i)) =>
            /\ out[i] = <<ExpectedFetchDiag(i)>>
            /\ ret[i] = "False"

C10_Witness ==
    \E i, j \in Invocations :
        /\ ClassifiedFetchFailure(i) /\ CauseClass(i) = "AuthError"
        /\ ClassifiedFetchFailure(j) /\ CauseClass(j) = "NotFoundError"
        /\ ReportedKind(i) = ReportedKind(j)

\* C11: two independent calls of a sealing routine (encrypt_secret_with_public_key
\* or the sealing block of update_secret) with the same secret and the same
\* public key yield different outputs.
C11_SealsDiffer ==
    \A m, n \in DOMAIN seal_log :
        /\ m # n
        /\ seal_log[m].secret = seal_log[n].secret
        /\ seal_log[m].key = seal_log[n].key
        /\ seal_log[m].raised = "none" /\ seal_log[n].raised = "none"
        => seal_log[m].value # seal_log[n].value

Exited(i) == main_pc[i] = "exited"

\* C12: main exits with status 0 exactly when five positional arguments were
\* given and update_secret returned True, and with status 1 otherwise; with any
\* other argument count it prints the usage line and exits without calling
\* update_secret or issuing a network request.
C12_ExitStatus ==
    \A i \in Invocations :
        /\ Exited(i) => exit_code[i] \in {0, 1}
        /\ Exited(i) => (exit_code[i] = 0 <=> (Len(argv[i]) = 6 /\ ret[i] = "True"))
        /\ ~Exited(i) => exit_code[i] = NoExit
        /\ Len(argv[i]) # 6 =>
              /\ pc[i] = "idle" /\ calls[i] = <<>> /\ ret[i] = "none"
              /\ Exited(i) => out[i] = <<Diag("Usage", 0, EmptyBody, "")>>

C12_Witness ==
    \E i, j \in Invocations :
        /\ Exited(i) /\ exit_code[i] = 0 /\ Len(argv[i]) = 6
        /\ Exited(j) /\ exit_code[j] = 1 /\ Len(argv[j]) = 7

\* suffix is the tail of str.
IsTail(suffix, str) ==
    /\ Len(str) >= Len(suffix)
    /\ \A k \in 1..Len(suffix) : str[Len(str) - Len(suffix) + k] = suffix[k]
\* The chat-completions URL built on an already trimmed base.
UrlOnBase(base) ==
    IF IsTail(<<"/", "chat", "/", "completions">>, base) THEN base
    ELSE IF IsTail(<<"/", "v1">>, base) THEN base \o <<"/", "chat", "/", "completions">>
    ELSE base \o <<"/", "v1", "/", "chat", "/", "completions">>
\* x with one trailing slash removed, if it has one.
OneSlashTrimmed(x) ==
    IF Len(x) > 0 /\ x[Len(x)] = "/" THEN SubSeq(x, 1, Len(x) - 1) ELSE x

\* C13: for every base endpoint, get_chat_completions_url returns the result of
\* trimming one trailing slash, then leaving the string unchanged if it ends
\* in /chat/completions, else appending /chat/completions if it ends in /v1,
\* else appending /v1/chat/completions -- inputs ending in several slashes
\* included.
C13_TrimsOneSlash ==
    Len(url_out) >= 1 => url_out[1] = UrlOnBase(OneSlashTrimmed(url_in))

\* C13 (amended): the same with every trailing slash trimmed, not only one.
C13_TrimsAllSlashes ==
    Len(url_out) >= 1 =>
        \E n \in 0..Len(url_in) :
            /\ \A k \in (n + 1)..Len(url_in) : url_in[k] = "/"
            /\ n > 0 => url_in[n] # "/"
            /\ url_out[1] = UrlOnBase(SubSeq(url_in, 1, n))

C13_Witness ==
    /\ url_in = <<"h", "/", "v1", "/", "/">>
    /\ Len(url_out) >= 1
    /\ url_out[1] = <<"h", "/", "v1", "/", "chat", "/", "completions">>

\* C17: the result of get_chat_completions_url ends with /chat/completions, and
\* applying the function to its own result returns that result unchanged.
C17_NormalizedAndIdempotent ==
    /\ Len(url_out) >= 1 => IsTail(<<"/", "chat", "/", "completions">>, url_out[1])
    /\ Len(url_out) = 2 => url_out[2] = url_out[1]

C17_Witness ==
    /\ url_in = <<"h", "/", "v1", "/">>
    /\ Len(url_out) = 2
    /\ url_out[2] = <<"h", "/", "v1", "/", "chat", "/", "completions">>

\* Invocation i issues its PUT in this step.
IssuesPut(i) == pc[i] = "get_returned" /\ pc'[i] = "put_wait"
IsBox(v) == v.enc = "b64" /\ v.raw.kind = "box"

Reported(i, status, body) ==
    \E n \in DOMAIN out[i] : out[i][n].status = status /\ out[i][n].body = body
PutReply(i) == calls[i][2].reply

\* C15: every path through update_secret prints at least one diagnostic line
\* before returning, and when the GET or the PUT completes with a failing
\* status the output includes that status code and the response body.
C15_DiagnosticOnEveryPath ==
    \A i \in Invocations :
        Done(i) =>
            /\ Len(out[i]) >= 1
            /\ GetReply(i).exc = "none" /\ GetReply(i).status # 200
                  => Reported(i, GetReply(i).status, GetReply(i).text)
            /\ Len(calls[i]) = 2 /\ PutReply(i).exc = "none"
                  /\ PutReply(i).status \notin {201, 204}
                  => Reported(i, PutReply(i).status, PutReply(i).text)

C15_Witness ==
    \E i, j \in Invocations :
        /\ Done(i) /\ Len(calls[i]) = 2 /\ PutReply(i).exc = "none"
        /\ PutReply(i).status = 403 /\ Reported(i, 403, ErrorBody)
        /\ Done(j) /\ ret[j] = "True" /\ Len(out[j]) >= 1

\* The texts a process must keep out of its output: the token and the secret
\* of its command line.
Confidential(i) == { argv[i][k] : k \in {2, 6} \cap DOMAIN argv[i] }
\* What the remote and the network answered to the calls of process i.
RepliesOf(i) == [n \in DOMAIN calls[i] |-> calls[i][n].reply]

====
